---- MODULE Spec2Model ----
(***************************************************************************)
(* Model of preseed-framework/generate_preseed.py: main() renders          *)
(* preseed.cfg from template.cfg by replacing the placeholder {{key}} of   *)
(* every key of config.json by str(value), one key after the other.        *)
(*                                                                         *)
(* Text is a sequence of one-character strings.  A run of main() is a walk *)
(* of pc through the statements of lines 13-29; the process may be started *)
(* again after it has exited (Rerun), on the file system the previous run  *)
(* left behind.                                                            *)
(***************************************************************************)
EXTENDS Integers, Sequences, FiniteSets, TLC

VARIABLES
    configFile,     \* config.json on disk
    templateFile,   \* template.cfg on disk
    outputFile,     \* preseed.cfg on disk
    pc,             \* the statement main() executes next
    config,         \* local `config` of main()
    content,        \* local `content` of main()
    idx,            \* position of the iterator of config.items()
    status,         \* exit status of the process, -1 while it runs
    stderr,         \* what the interpreter printed for a fatal termination
    stdout,         \* lines printed by print()
    origin,         \* history: for every character of content, its index in
                    \* the template text, or 0 when a substitution put it there
    cascaded,       \* history: some replacement consumed a character that an
                    \* earlier substitution had put into content
    writes,         \* history: number of writes of preseed.cfg in this run
    start,          \* history: the three files as they were when the run began
    previous        \* history: preseed.cfg as the previous successful run left it

vars == <<configFile, templateFile, outputFile, pc, config, content, idx,
          status, stderr, stdout, origin, cascaded, writes, start, previous>>

(***************************************************************************)
(* Bounds of the enumerated inputs.                                        *)
(***************************************************************************)
MaxPieces == 3
MaxItems == 2

(***************************************************************************)
(* Paths (lines 7-9).                                                      *)
(***************************************************************************)
CONFIG_PATH == "config.json"
TEMPLATE_PATH == "template.cfg"
OUTPUT_PATH == "preseed.cfg"

LB == "{"
RB == "}"

Range(s) == {s[i] : i \in 1..Len(s)}

BraceFree(s) == \A i \in 1..Len(s) : s[i] # LB /\ s[i] # RB

(***************************************************************************)
(* str(value) for the scalars json.load can produce (line 26).             *)
(***************************************************************************)
Digit(d) == <<"0", "1", "2", "3", "4", "5", "6", "7", "8", "9">>[d + 1]

RECURSIVE StrOfNat(_)
StrOfNat(n) == IF n < 10 THEN <<Digit(n)>>
               ELSE StrOfNat(n \div 10) \o <<Digit(n % 10)>>

StrOfInt(n) == IF n < 0 THEN <<"-">> \o StrOfNat(-n) ELSE StrOfNat(n)

StrValue(s) == [t |-> "str", s |-> s, n |-> 0, b |-> FALSE]
IntValue(n) == [t |-> "int", s |-> <<>>, n |-> n, b |-> FALSE]
BoolValue(b) == [t |-> "bool", s |-> <<>>, n |-> 0, b |-> b]
NullValue == [t |-> "null", s |-> <<>>, n |-> 0, b |-> FALSE]

Str(v) ==
    CASE v.t = "str" -> v.s
      [] v.t = "int" -> StrOfInt(v.n)
      [] v.t = "bool" -> IF v.b THEN <<"T", "r", "u", "e">>
                         ELSE <<"F", "a", "l", "s", "e">>
      [] OTHER -> <<"N", "o", "n", "e">>

(***************************************************************************)
(* placeholder = f"{{{{{key}}}}}" (line 25): two opening braces, the key,  *)
(* two closing braces.                                                     *)
(***************************************************************************)
Placeholder(key) == <<LB, LB>> \o key \o <<RB, RB>>

(***************************************************************************)
(* str.replace(old, new) (line 26): the occurrences of old are found from  *)
(* the left, each search resuming after the previous occurrence, and all   *)
(* of them are replaced.  old is never empty here.                         *)
(***************************************************************************)
\* compares the opening braces and the key, not the closing braces
MatchAtOpeningOnly(s, old, i) ==
    /\ i + Len(old) - 1 <= Len(s)
    /\ SubSeq(s, i, i + Len(old) - 3) = SubSeq(old, 1, Len(old) - 2)

MatchAt(s, old, i) ==
    /\ i + Len(old) - 1 <= Len(s)
    /\ SubSeq(s, i, i + Len(old) - 1) = old

RECURSIVE MatchStartsFrom(_, _, _)
MatchStartsFrom(s, old, i) ==
    IF i + Len(old) - 1 > Len(s) THEN <<>>
    ELSE IF MatchAt(s, old, i)
         THEN <<i>> \o MatchStartsFrom(s, old, i + Len(old))
         ELSE MatchStartsFrom(s, old, i + 1)

\* str.replace(old, new, 1)
FirstMatchOnly(s, old) ==
    LET all == MatchStartsFrom(s, old, 1)
    IN  IF all = <<>> THEN <<>> ELSE <<all[1]>>

MatchStarts(s, old) == MatchStartsFrom(s, old, 1)

\* Splice taking one character too many out at every occurrence
RECURSIVE SpliceOneTooMany(_, _, _, _, _)
SpliceOneTooMany(s, starts, n, new, i) ==
    IF starts = <<>> THEN SubSeq(s, i, Len(s))
    ELSE SubSeq(s, i, starts[1] - 1) \o new
         \o SpliceOneTooMany(s, Tail(starts), n, new, starts[1] + n + 1)

\* s with the n characters at each of starts replaced by new, from index i on
RECURSIVE Splice(_, _, _, _, _)
Splice(s, starts, n, new, i) ==
    IF starts = <<>> THEN SubSeq(s, i, Len(s))
    ELSE SubSeq(s, i, starts[1] - 1) \o new
         \o Splice(s, Tail(starts), n, new, starts[1] + n)

Replace(s, old, new) == Splice(s, MatchStarts(s, old), Len(old), new, 1)

Occurs(old, s) == \E i \in 1..Len(s) : MatchAt(s, old, i)

Occurrences(old, s) == {i \in 1..Len(s) : MatchAt(s, old, i)}

\* the whole loop of lines 24-26 over the items in the given order
RECURSIVE Render(_, _)
Render(text, items) ==
    IF items = <<>> THEN text
    ELSE Render(Replace(text, Placeholder(items[1].key), Str(items[1].value)),
                Tail(items))

(***************************************************************************)
(* The files.  A file that exists may still fail to open (a directory, no  *)
(* permission); config.json holds a JSON object (its pairs in document     *)
(* order, keys distinct), some other JSON value, or text that is no JSON.  *)
(***************************************************************************)
Item(k, v) == [key |-> k, value |-> v]

ConfigObject(items) ==
    [exists |-> TRUE, readable |-> TRUE, kind |-> "object", items |-> items]
ConfigOther(kind) ==
    [exists |-> TRUE, readable |-> TRUE, kind |-> kind, items |-> <<>>]
ConfigUnreadable ==
    [exists |-> TRUE, readable |-> FALSE, kind |-> "object", items |-> <<>>]
ConfigMissing ==
    [exists |-> FALSE, readable |-> FALSE, kind |-> "object", items |-> <<>>]

TemplateText(text) == [exists |-> TRUE, readable |-> TRUE, text |-> text]
TemplateUnreadable == [exists |-> TRUE, readable |-> FALSE, text |-> <<>>]
TemplateMissing == [exists |-> FALSE, readable |-> FALSE, text |-> <<>>]

OutputFile(exists, writable, text) ==
    [exists |-> exists, writable |-> writable, text |-> text]

OldText == <<"o", "l", "d">>

(***************************************************************************)
(* Enumerated inputs: templates are concatenations of at most MaxPieces    *)
(* pieces, configurations hold at most MaxItems pairs with distinct keys.  *)
(***************************************************************************)
Pieces == { <<LB, LB>>, <<RB, RB>>, <<LB, LB, "a", RB, RB>>,
            <<LB, LB, "b", RB, RB>>, <<"a">> }

RECURSIVE TemplatesOfLen(_)
TemplatesOfLen(n) ==
    IF n = 0 THEN {<<>>}
    ELSE {p \o t : p \in Pieces, t \in TemplatesOfLen(n - 1)}

Templates == UNION {TemplatesOfLen(n) : n \in 0..MaxPieces}

Keys == { <<"a">>, <<"b">>, <<"a", RB, RB>> }

Values == { StrValue(<<>>), StrValue(<<"b">>),
            StrValue(<<LB, LB, "b", RB, RB>>) }

RECURSIVE ConfigsOfLen(_)
ConfigsOfLen(n) ==
    IF n = 0 THEN {<<>>}
    ELSE {<<Item(x[1], x[2])>> \o x[3] :
            x \in {y \in Keys \X Values \X ConfigsOfLen(n - 1) :
                     \A i \in 1..Len(y[3]) : y[3][i].key # y[1]}}

Configs == UNION {ConfigsOfLen(n) : n \in 0..MaxItems}

\* the example of the documentation, and one with the other scalar types
ExampleConfig ==
    << Item(<<"h", "o", "s", "t", "n", "a", "m", "e">>,
            StrValue(<<"n", "o", "d", "e", "1">>)),
       Item(<<"p", "o", "r", "t">>, IntValue(8080)) >>
ExampleTemplate ==
    <<"h", "o", "s", "t", "=", "{", "{", "h", "o", "s", "t", "n", "a", "m",
      "e", "}", "}", " ", "p", "o", "r", "t", "=", "{", "{", "p", "o", "r",
      "t", "}", "}", " ", "d", "e", "b", "u", "g", "=", "{", "{", "d", "e",
      "b", "u", "g", "}", "}">>
ExampleOutput ==
    <<"h", "o", "s", "t", "=", "n", "o", "d", "e", "1", " ", "p", "o", "r",
      "t", "=", "8", "0", "8", "0", " ", "d", "e", "b", "u", "g", "=", "{",
      "{", "d", "e", "b", "u", "g", "}", "}">>
ScalarsConfig ==
    << Item(<<"d", "e", "b", "u", "g">>, BoolValue(TRUE)),
       Item(<<"n">>, IntValue(-5)),
       Item(<<"x">>, NullValue) >>
ScalarsTemplate ==
    <<"{", "{", "d", "e", "b", "u", "g", "}", "}", "{", "{", "n", "}", "}",
      "{", "{", "x", "}", "}">>

\* <<configFile, templateFile, outputFile>> before the first run
RenderInputs ==
    {<<ConfigObject(c), TemplateText(t), OutputFile(FALSE, TRUE, <<>>)>> :
        c \in Configs, t \in Templates}

ExampleInputs ==
    { <<ConfigObject(ExampleConfig), TemplateText(ExampleTemplate),
        OutputFile(TRUE, TRUE, OldText)>>,
      <<ConfigObject(ScalarsConfig), TemplateText(ScalarsTemplate),
        OutputFile(FALSE, TRUE, <<>>)>> }

FaultInputs ==
    {<<c, t, o>> :
        c \in {ConfigMissing, ConfigUnreadable, ConfigOther("malformed"),
               ConfigOther("nonobject"),
               ConfigObject(<<Item(<<"a">>, StrValue(<<"b">>))>>)},
        t \in {TemplateMissing, TemplateUnreadable,
               TemplateText(<<LB, LB, "a", RB, RB>>)},
        o \in {OutputFile(FALSE, TRUE, <<>>), OutputFile(TRUE, TRUE, OldText),
               OutputFile(TRUE, FALSE, OldText), OutputFile(FALSE, FALSE, <<>>)}}

Inputs == RenderInputs \cup ExampleInputs \cup FaultInputs

(***************************************************************************)
(* Fatal terminations.  raise SystemExit(text) prints text on stderr and   *)
(* exits with status 1; an exception nobody handles prints a traceback     *)
(* naming it and exits with status 1 as well.                              *)
(***************************************************************************)
NotFound(what, path) == <<what, path, " not found">>

\* the messages with the other file's path in them
ConfigNotFoundOtherPath == NotFound("Config file ", TEMPLATE_PATH)
TemplateNotFoundOtherPath == NotFound("Template file ", CONFIG_PATH)

ConfigNotFound == NotFound("Config file ", CONFIG_PATH)
TemplateNotFound == NotFound("Template file ", TEMPLATE_PATH)
Traceback(exception) == <<"Traceback (most recent call last)", exception>>
Generated == <<"Generated ", OUTPUT_PATH>>

Unset == [kind |-> "unset", items |-> <<>>]

Files == <<configFile, templateFile, outputFile>>

Init ==
    /\ \E in \in Inputs :
        /\ configFile = in[1]
        /\ templateFile = in[2]
        /\ outputFile = in[3]
        /\ start = in
    /\ pc = "check_config"
    /\ config = Unset
    /\ content = <<>>
    /\ idx = 1
    /\ status = -1
    /\ stderr = <<>>
    /\ stdout = <<>>
    /\ origin = <<>>
    /\ cascaded = FALSE
    /\ writes = 0
    /\ previous = [valid |-> FALSE, text |-> <<>>]

Die(message) ==
    /\ pc' = "exited"
    /\ status' = 1
    /\ stderr' = message

Locals == <<config, content, idx, origin, cascaded>>
Disk == <<configFile, templateFile, outputFile, writes>>
History == <<start, previous>>

\* the two existence checks in the other order
CheckConfigAfterTemplate ==
    /\ pc = "check_config"
    /\ IF ~templateFile.exists
       THEN Die(TemplateNotFound)
       ELSE IF ~configFile.exists
       THEN Die(ConfigNotFound)
       ELSE pc' = "check_template" /\ UNCHANGED <<status, stderr>>
    /\ UNCHANGED <<Locals, Disk, History, stdout>>

\* lines 13-14
CheckConfig ==
    /\ pc = "check_config"
    /\ IF ~configFile.exists
       THEN Die(ConfigNotFound)
       ELSE pc' = "check_template" /\ UNCHANGED <<status, stderr>>
    /\ UNCHANGED <<Locals, Disk, History, stdout>>

\* lines 15-16
CheckTemplate ==
    /\ pc = "check_template"
    /\ IF ~templateFile.exists
       THEN Die(TemplateNotFound)
       ELSE pc' = "load_config" /\ UNCHANGED <<status, stderr>>
    /\ UNCHANGED <<Locals, Disk, History, stdout>>

\* lines 18-19
LoadConfig ==
    /\ pc = "load_config"
    /\ IF ~configFile.readable
       THEN Die(Traceback("OSError")) /\ UNCHANGED config
       ELSE IF configFile.kind = "malformed"
       THEN Die(Traceback("JSONDecodeError")) /\ UNCHANGED config
       ELSE /\ config' = [kind |-> configFile.kind, items |-> configFile.items]
            /\ pc' = "read_template"
            /\ UNCHANGED <<status, stderr>>
    /\ UNCHANGED <<content, idx, origin, cascaded, Disk, History, stdout>>

\* lines 21-22
ReadTemplate ==
    /\ pc = "read_template"
    /\ IF ~templateFile.readable
       THEN Die(Traceback("OSError")) /\ UNCHANGED <<content, origin>>
       ELSE /\ content' = templateFile.text
            /\ origin' = [i \in 1..Len(templateFile.text) |-> i]
            /\ pc' = "loop"
            /\ UNCHANGED <<status, stderr>>
    /\ UNCHANGED <<config, idx, cascaded, Disk, History, stdout>>

\* line 24 on a JSON value that is no object: it has no items()
ItemsOfNonObject ==
    /\ pc = "loop"
    /\ config.kind # "object"
    /\ Die(Traceback("AttributeError"))
    /\ UNCHANGED <<Locals, Disk, History, stdout>>

\* the occurrence at m holds a character that a substitution put there
Introduced(org, m, n) == \E j \in 0..(n - 1) : org[m + j] = 0

\* line 28 indented into the loop: every iteration writes the file as well
SubstituteAndWrite ==
    /\ pc = "loop"
    /\ config.kind = "object"
    /\ idx <= Len(config.items)
    /\ LET key == config.items[idx].key
           value == config.items[idx].value
           placeholder == Placeholder(key)
           starts == MatchStarts(content, placeholder)
           n == Len(placeholder)
       IN  /\ content' = Replace(content, placeholder, Str(value))
           /\ origin' = Splice(origin, starts, n,
                               [i \in 1..Len(Str(value)) |-> 0], 1)
           /\ cascaded' = (cascaded \/
                 \E i \in 1..Len(starts) : Introduced(origin, starts[i], n))
    /\ idx' = idx + 1
    /\ outputFile' = OutputFile(TRUE, outputFile.writable, content')
    /\ writes' = writes + 1
    /\ UNCHANGED <<pc, config, status, stderr, stdout, configFile,
                   templateFile, History>>

\* lines 24-26, one iteration
Substitute ==
    /\ pc = "loop"
    /\ config.kind = "object"
    /\ idx <= Len(config.items)
    /\ LET key == config.items[idx].key
           value == config.items[idx].value
           placeholder == Placeholder(key)
           starts == MatchStarts(content, placeholder)
           n == Len(placeholder)
       IN  /\ content' = Replace(content, placeholder, Str(value))
           /\ origin' = Splice(origin, starts, n,
                               [i \in 1..Len(Str(value)) |-> 0], 1)
           /\ cascaded' = (cascaded \/
                 \E i \in 1..Len(starts) : Introduced(origin, starts[i], n))
    /\ idx' = idx + 1
    /\ UNCHANGED <<pc, config, status, stderr, stdout, Disk, History>>

\* the file opened with mode "a" instead of "w"
WriteOutputAppend ==
    /\ pc = "loop"
    /\ config.kind = "object"
    /\ idx > Len(config.items)
    /\ IF ~outputFile.writable
       THEN Die(Traceback("OSError")) /\ UNCHANGED <<outputFile, writes>>
       ELSE /\ outputFile' = OutputFile(TRUE, TRUE, outputFile.text \o content)
            /\ writes' = writes + 1
            /\ pc' = "print"
            /\ UNCHANGED <<status, stderr>>
    /\ UNCHANGED <<configFile, templateFile, Locals, History, stdout>>

\* line 28
WriteOutput ==
    /\ pc = "loop"
    /\ config.kind = "object"
    /\ idx > Len(config.items)
    /\ IF ~outputFile.writable
       THEN Die(Traceback("OSError")) /\ UNCHANGED <<outputFile, writes>>
       ELSE /\ outputFile' = OutputFile(TRUE, TRUE, content)
            /\ writes' = writes + 1
            /\ pc' = "print"
            /\ UNCHANGED <<status, stderr>>
    /\ UNCHANGED <<configFile, templateFile, Locals, History, stdout>>

\* line 29, and the return from main()
PrintGenerated ==
    /\ pc = "print"
    /\ stdout' = Append(stdout, Generated)
    /\ pc' = "exited"
    /\ status' = 0
    /\ UNCHANGED <<stderr, Locals, Disk, History>>

\* lines 32-33: the script is started again on the files as they are
Rerun ==
    /\ pc = "exited"
    /\ pc' = "check_config"
    /\ config' = Unset
    /\ content' = <<>>
    /\ idx' = 1
    /\ status' = -1
    /\ stderr' = <<>>
    /\ stdout' = <<>>
    /\ origin' = <<>>
    /\ cascaded' = FALSE
    /\ writes' = 0
    /\ start' = Files
    /\ previous' = IF status = 0
                   THEN [valid |-> TRUE, text |-> outputFile.text]
                   ELSE previous
    /\ UNCHANGED <<configFile, templateFile, outputFile>>

Next ==
    \/ CheckConfig
    \/ CheckTemplate
    \/ LoadConfig
    \/ ReadTemplate
    \/ ItemsOfNonObject
    \/ Substitute
    \/ WriteOutput
    \/ PrintGenerated
    \/ Rerun

Spec == Init /\ [][Next]_vars

(***************************************************************************)
(* Vocabulary of the properties.                                           *)
(***************************************************************************)
Template == templateFile.text
Mapping == config.items
KeysOf(items) == {items[i].key : i \in 1..Len(items)}

\* main() has written preseed.cfg in this run; its text is outputFile.text
Written == writes = 1

\* <<i, n>>: a token {{name}} with a brace-free name of n characters at i
Tokens(text) ==
    {t \in (1..Len(text)) \X (0..Len(text)) :
        /\ t[1] + t[2] + 3 <= Len(text)
        /\ text[t[1]] = LB /\ text[t[1] + 1] = LB
        /\ BraceFree(SubSeq(text, t[1] + 2, t[1] + 1 + t[2]))
        /\ text[t[1] + 2 + t[2]] = RB /\ text[t[1] + 3 + t[2]] = RB}

Names(text) == {SubSeq(text, t[1] + 2, t[1] + 1 + t[2]) : t \in Tokens(text)}

\* every brace of text belongs to a token {{name}} with a brace-free name
RECURSIVE WellFormed(_)
WellFormed(text) ==
    IF text = <<>> THEN TRUE
    ELSE IF text[1] # LB /\ text[1] # RB THEN WellFormed(Tail(text))
    ELSE \E t \in Tokens(text) :
            /\ t[1] = 1
            /\ WellFormed(SubSeq(text, t[2] + 5, Len(text)))

\* text holds two opening braces and, after them, two closing braces
HasPlaceholder(text) ==
    \E i, j \in 1..Len(text) :
        /\ i + 2 <= j /\ j + 1 <= Len(text)
        /\ text[i] = LB /\ text[i + 1] = LB
        /\ text[j] = RB /\ text[j + 1] = RB

\* the occurrence at m is a contiguous, untouched piece of the template
Original(org, m, n) ==
    \A j \in 0..(n - 1) : org[m + j] # 0 /\ org[m + j] = org[m] + j

\* the template's characters p .. p+n-1 stand side by side in content
Survives(p, n) ==
    \E i \in 1..Len(origin) :
        i + n - 1 <= Len(origin) /\ \A j \in 0..(n - 1) : origin[i + j] = p + j

\* what is left of the template in content is in the template's order
InTemplateOrder ==
    \A i, j \in 1..Len(origin) :
        (i < j /\ origin[i] # 0 /\ origin[j] # 0) => origin[i] < origin[j]

Orders(items) ==
    {[i \in 1..Len(items) |-> items[f[i]]] :
        f \in {g \in [1..Len(items) -> 1..Len(items)] :
                 \A a, b \in 1..Len(items) : a # b => g[a] # g[b]}}

BraceFreeKeys == \A i \in 1..Len(Mapping) : BraceFree(Mapping[i].key)
BraceFreeValues == \A i \in 1..Len(Mapping) : BraceFree(Str(Mapping[i].value))

(***************************************************************************)
(* C1.  As claimed: for every key of the mapping whose placeholder {{key}} *)
(* occurs in the template, the text main() writes holds no {{key}}.        *)
(***************************************************************************)
C1_NoPlaceholderRemains ==
    Written =>
        \A i \in 1..Len(Mapping) :
            Occurs(Placeholder(Mapping[i].key), Template)
                => ~Occurs(Placeholder(Mapping[i].key), outputFile.text)

\* the template with every token whose name is a key replaced by str(value),
\* in one pass from the left
RECURSIVE TokenWise(_, _)
TokenWise(text, items) ==
    IF text = <<>> THEN <<>>
    ELSE LET hit == {i \in 1..Len(items) :
                        MatchAt(text, Placeholder(items[i].key), 1)}
         IN  IF hit = {} THEN <<text[1]>> \o TokenWise(Tail(text), items)
             ELSE LET i == CHOOSE h \in hit : TRUE
                  IN  Str(items[i].value)
                      \o TokenWise(SubSeq(text, Len(items[i].key) + 5,
                                          Len(text)), items)

(***************************************************************************)
(* C1, amended.  When no key and no stringified value of the mapping holds *)
(* a brace and every brace of the template belongs to a token {{name}}     *)
(* with a brace-free name, the text main() writes is the template with     *)
(* every token whose name is a key replaced by the stringified value, and  *)
(* it holds no {{key}} for any key of the mapping; the documented example  *)
(* renders to the documented output.                                       *)
(***************************************************************************)
C1_ReplacedInWellFormed ==
    Written =>
        /\ (BraceFreeKeys /\ BraceFreeValues /\ WellFormed(Template)) =>
              /\ outputFile.text = TokenWise(Template, Mapping)
              /\ \A i \in 1..Len(Mapping) :
                    ~Occurs(Placeholder(Mapping[i].key), outputFile.text)
        /\ (Mapping = ExampleConfig /\ Template = ExampleTemplate) =>
              outputFile.text = ExampleOutput

C1_Witness ==
    /\ Written
    /\ BraceFreeKeys /\ BraceFreeValues /\ WellFormed(Template)
    /\ \E i \in 1..Len(Mapping) :
          /\ Cardinality(Occurrences(Placeholder(Mapping[i].key), Template)) = 2
          /\ Str(Mapping[i].value) # <<>>
    /\ Names(outputFile.text) # {}

(***************************************************************************)
(* C2.  When config.json does not exist as main() starts, the run gets no  *)
(* further than the first check, ends with a non-zero status and a message *)
(* naming the configuration path, and preseed.cfg stays as it was,         *)
(* whatever the state of template.cfg.                                     *)
(***************************************************************************)
C2_MissingConfig ==
    ~start[1].exists =>
        /\ pc \in {"check_config", "exited"}
        /\ outputFile = start[3]
        /\ pc = "exited" =>
              /\ status > 0
              /\ CONFIG_PATH \in Range(stderr)
              /\ stdout = <<>>

C2_Witness ==
    /\ pc = "exited"
    /\ ~start[1].exists
    /\ start[2].exists
    /\ start[3].exists

(***************************************************************************)
(* C3.  As claimed: when template.cfg does not exist as main() starts, the *)
(* run ends with a non-zero status and a message naming the template path, *)
(* and preseed.cfg stays as it was.                                        *)
(***************************************************************************)
C3_MissingTemplate ==
    (~start[2].exists /\ pc = "exited") =>
        /\ status > 0
        /\ TEMPLATE_PATH \in Range(stderr)
        /\ outputFile = start[3]

(***************************************************************************)
(* C3, amended.  When template.cfg does not exist as main() starts, the    *)
(* run ends with a non-zero status and preseed.cfg stays as it was; the    *)
(* message names the template path when config.json exists.                *)
(***************************************************************************)
C3_MissingTemplateConfigPresent ==
    ~start[2].exists =>
        /\ pc \in {"check_config", "check_template", "exited"}
        /\ outputFile = start[3]
        /\ pc = "exited" =>
              /\ status > 0
              /\ stdout = <<>>
              /\ start[1].exists => TEMPLATE_PATH \in Range(stderr)

C3_Witness ==
    /\ pc = "exited"
    /\ ~start[2].exists
    /\ start[1].exists
    /\ start[3].exists

(***************************************************************************)
(* C4.  As claimed: every placeholder {{name}} of the template whose name  *)
(* is no key of the mapping stands unchanged in the text main() writes:    *)
(* each of its occurrences in the template is still there, in one piece,   *)
(* whatever the other keys and values of the mapping.                      *)
(***************************************************************************)
C4_UnmatchedUnchanged ==
    Written =>
        \A name \in Names(Template) \ KeysOf(Mapping) :
            \A p \in Occurrences(Placeholder(name), Template) :
                Survives(p, Len(Placeholder(name)))

(***************************************************************************)
(* C4, amended.  When no key of the mapping holds a brace, every           *)
(* occurrence in the template of a placeholder {{name}} whose name is no   *)
(* key stands unchanged in the text main() writes, at its place among what *)
(* is left of the template (values may add further copies of the same      *)
(* text), and the loop raises no error: a run that has read the template   *)
(* of an object configuration gets to the write.                           *)
(***************************************************************************)
C4_UnmatchedSurvive ==
    /\ (Written /\ BraceFreeKeys) =>
          /\ content = outputFile.text
          /\ InTemplateOrder
          /\ \A name \in Names(Template) \ KeysOf(Mapping) :
                LET ph == Placeholder(name)
                IN  /\ \A p \in Occurrences(ph, Template) : Survives(p, Len(ph))
                    /\ Cardinality({i \in Occurrences(ph, content) :
                                      Original(origin, i, Len(ph))})
                         = Cardinality(Occurrences(ph, Template))
    /\ (pc = "exited" /\ config.kind = "object" /\ templateFile.readable) =>
          /\ idx = Len(Mapping) + 1
          /\ status > 0 => stderr = Traceback("OSError")

C4_Witness ==
    /\ Written
    /\ BraceFreeKeys
    /\ \E name \in Names(Template) \ KeysOf(Mapping) : name # <<>>
    /\ \E i \in 1..Len(Mapping) :
          /\ Occurs(Placeholder(Mapping[i].key), Template)
          /\ Occurs(LB, Str(Mapping[i].value))

(***************************************************************************)
(* C5.  As claimed: no replacement of the loop consumes a character that   *)
(* an earlier substitution put into content.                               *)
(***************************************************************************)
C5_NoCascading == ~cascaded

(***************************************************************************)
(* C6.  As claimed: when no stringified value of the mapping holds the     *)
(* placeholder {{k}} of a key k of the mapping, the text main() writes is  *)
(* what every other iteration order of the mapping renders.                *)
(***************************************************************************)
C6_OrderIndependent ==
    (Written /\ \A i, j \in 1..Len(Mapping) :
                   ~Occurs(Placeholder(Mapping[j].key), Str(Mapping[i].value)))
        => \A order \in Orders(Mapping) :
              Render(Template, order) = outputFile.text

Parses == start[1].readable /\ start[1].kind # "malformed"

Success ==
    /\ status = 0
    /\ outputFile.exists
    /\ outputFile.text = Render(start[2].text, start[1].items)
    /\ Len(stdout) = 1 /\ OUTPUT_PATH \in Range(stdout[1])
    /\ stderr = <<>>
    /\ previous.valid => outputFile.text = previous.text

(***************************************************************************)
(* C8.  As claimed: when config.json and template.cfg exist and the        *)
(* configuration parses, the run ends with status zero, preseed.cfg holds  *)
(* the rendered text and nothing else, one confirmation line names the     *)
(* output path, and a further run leaves the same content.                 *)
(***************************************************************************)
C8_SuccessfulRun ==
    (pc = "exited" /\ start[1].exists /\ start[2].exists /\ Parses) => Success

(***************************************************************************)
(* C8, amended.  The same, when moreover the configuration is a JSON       *)
(* object, template.cfg can be read and preseed.cfg can be written.        *)
(***************************************************************************)
C8_SuccessfulRunOfObject ==
    (/\ pc = "exited"
     /\ start[1].exists /\ start[2].exists /\ Parses
     /\ start[1].kind = "object" /\ start[2].readable /\ start[3].writable)
        => Success

C8_Witness ==
    /\ pc = "exited"
    /\ status = 0
    /\ previous.valid
    /\ \E i \in 1..Len(Mapping) : Occurs(Placeholder(Mapping[i].key), Template)
    /\ outputFile.text # <<>>

(***************************************************************************)
(* C9.  preseed.cfg is written at most once in a run, and only when both   *)
(* checks have passed, the configuration is parsed, the template is read   *)
(* and the loop is over; a run that fails leaves it as it was; config.json *)
(* and template.cfg are never modified.                                    *)
(***************************************************************************)
C9_WriteLast ==
    /\ writes <= 1
    /\ configFile = start[1] /\ templateFile = start[2]
    /\ writes = 0 => outputFile = start[3]
    /\ writes = 1 =>
          /\ pc \in {"print", "exited"}
          /\ configFile.exists /\ templateFile.exists
          /\ config = [kind |-> "object", items |-> configFile.items]
          /\ idx = Len(Mapping) + 1
          /\ content = Render(Template, Mapping)
          /\ outputFile = OutputFile(TRUE, TRUE, content)
    /\ (pc = "exited" /\ status > 0) => outputFile = start[3]

C9_Witness ==
    /\ pc = "exited"
    /\ status > 0
    /\ start[3].exists
    /\ config.kind = "object"
    /\ Len(Mapping) >= 1
    /\ content # Template

(***************************************************************************)
(* C10.  The configuration check comes first: with both files missing the  *)
(* message names the configuration path and not the template path; the     *)
(* template path is named only when config.json exists; and no file is     *)
(* opened before both checks have passed.                                  *)
(***************************************************************************)
C10_ConfigCheckedFirst ==
    /\ (pc = "exited" /\ ~start[1].exists /\ ~start[2].exists) =>
          /\ CONFIG_PATH \in Range(stderr)
          /\ TEMPLATE_PATH \notin Range(stderr)
    /\ TEMPLATE_PATH \in Range(stderr) => start[1].exists /\ ~start[2].exists
    /\ pc \in {"check_template", "load_config"} => start[1].exists
    /\ pc \in {"load_config", "read_template", "loop", "print"} =>
          start[1].exists /\ start[2].exists
    /\ (config # Unset \/ content # <<>> \/ writes > 0) =>
          start[1].exists /\ start[2].exists

C10_Witness ==
    /\ pc = "exited"
    /\ ~start[1].exists
    /\ ~start[2].exists
    /\ stderr # <<>>

====
